---- MODULE Spec2Model ----
(***************************************************************************)
(* A model of rsh, a csh-like shell written in Rust.                       *)
(*                                                                         *)
(* Text is modelled at character level: a string is a sequence of          *)
(* one-character strings, so that the tokenizers and Shell::parse_shell    *)
(* are computed the way the code computes them (starts_with, find,         *)
(* remove(0), pop, slicing).  ASCII only: a char index is a byte index.    *)
(*                                                                         *)
(* Two specifications:                                                     *)
(*   SpecSplit  the tokenizers as pure functions of an input line          *)
(*   Spec       the shell as a set of processes (fork / exec / wait)       *)
(***************************************************************************)
EXTENDS Integers, Sequences, FiniteSets, TLC

VARIABLES
    tk,         \* the tokenizer harness: an input line and the tokenizers' outputs
    procs,      \* pid -> process: its stack of frames, descriptor table, Shell state
    stdin       \* the open file behind descriptor 0 of the shell: which lines it
                \* may deliver, and whether its end has been reached

vars == <<tk, procs, stdin>>

(***************************************************************************)
(* Strings as sequences of characters                                      *)
(***************************************************************************)
Last(s) == s[Len(s)]

Front(s) == SubSeq(s, 1, Len(s) - 1)

Take(s, n) == SubSeq(s, 1, n)

Drop(s, n) == SubSeq(s, n + 1, Len(s))

Contains(s, c) == \E i \in 1..Len(s) : s[i] = c

StartsWith(s, pre) == Len(s) >= Len(pre) /\ Take(s, Len(pre)) = pre

EndsWith(s, suf) == Len(s) >= Len(suf) /\ Drop(s, Len(s) - Len(suf)) = suf

\* str::find(c): the position of the first c (1-based here), 0 when there is none
Find(s, c) == IF Contains(s, c) THEN CHOOSE i \in 1..Len(s) : s[i] = c /\ \A j \in 1..(i - 1) : s[j] # c ELSE 0

RECURSIVE Concat(_, _)
\* the strings of a list joined with a separator, as [T]::join does
Concat(list, sep) ==
    IF list = <<>> THEN <<>>
    ELSE IF Len(list) = 1 THEN list[1]
    ELSE list[1] \o sep \o Concat(Tail(list), sep)

Space == <<" ">>

DQuote == "\""

Whitespace == {" ", "\t", "\n"}

(***************************************************************************)
(* The tokenizers                                                          *)
(***************************************************************************)
RECURSIVE SplitOn(_, _)
\* str::split(c): the pieces between the occurrences of c, empty pieces kept
SplitOn(s, c) ==
    IF ~Contains(s, c) THEN <<s>>
    ELSE <<Take(s, Find(s, c) - 1)>> \o SplitOn(Drop(s, Find(s, c)), c)

\* Iterator::step_by(2): the elements at positions 0, 2, 4, ... of the iterator
StepBy2(list) == [i \in 1..((Len(list) + 1) \div 2) |-> list[2 * i - 1]]

\* src/splitter.rs: line.split('"').step_by(2).collect()
split_arguments(line) == StepBy2(SplitOn(line, DQuote))

RECURSIVE ShellSplitLoop(_, _, _, _)
\* src/shell/splitter.rs: the for loop over line.chars().enumerate(); number is
\* the 0-based index of the next symbol, start the 0-based start of the open piece
ShellSplitLoop(line, number, start, result) ==
    IF number = Len(line) THEN result \o <<SubSeq(line, start + 1, Len(line))>>
    ELSE IF line[number + 1] = " "
         THEN ShellSplitLoop(line, number + 1, number + 1,
                             result \o <<SubSeq(line, start + 1, number)>>)
         ELSE ShellSplitLoop(line, number + 1, start, result)

\* src/shell/splitter.rs: split_arguments
shell_split_arguments(line) == ShellSplitLoop(line, 0, 0, <<>>)

RECURSIVE SkipWhite(_)
SkipWhite(s) == IF s # <<>> /\ s[1] \in Whitespace THEN SkipWhite(Tail(s)) ELSE s

RECURSIVE WordLen(_)
WordLen(s) == IF s = <<>> \/ s[1] \in Whitespace THEN 0 ELSE 1 + WordLen(Tail(s))

RECURSIVE split_whitespace(_)
\* str::split_whitespace as Shell::parse uses it: the maximal runs of
\* non-whitespace characters, in order; no empty piece is produced
split_whitespace(line) ==
    LET s == SkipWhite(line) IN
    IF s = <<>> THEN <<>>
    ELSE <<Take(s, WordLen(s))>> \o split_whitespace(Drop(s, WordLen(s)))

(***************************************************************************)
(* SpecSplit: the tokenizers applied to bounded inputs                     *)
(***************************************************************************)
MaxLineLen == 4

MaxTokens == 2

MaxTokenLen == 2

RECURSIVE SeqsUpTo(_, _)
\* all sequences over S of length 0..n
SeqsUpTo(S, n) ==
    IF n = 0 THEN {<<>>}
    ELSE LET shorter == SeqsUpTo(S, n - 1) IN
         shorter \cup {Append(s, x) : s \in shorter, x \in S}

LineAlphabet == {"a", " ", DQuote, "'"}

WordAlphabet == {"a", "b"}

\* the lines of the tests of src/splitter.rs and src/shell/splitter.rs
TestLineDouble == <<"e", "c", "h", "o", " ", "\"", "f", "i", "r", "s", "t", " ", "a", "r", "g", "u", "m", "e", "n", "t", "\"", " ", "\"", "s", "e", "c", "o", "n", "d", " ", "a", "r", "g", "u", "m", "e", "n", "t", "\"">>

TestLineSingle == <<"e", "c", "h", "o", " ", "'", "f", "i", "r", "s", "t", " ", "a", "r", "g", "u", "m", "e", "n", "t", "'", " ", "'", "s", "e", "c", "o", "n", "d", " ", "a", "r", "g", "u", "m", "e", "n", "t", "'">>

TestLinePlain == <<"e", "c", "h", "o", " ", "f", "i", "r", "s", "t", " ", "s", "e", "c", "o", "n", "d", " ", "t", "h", "i", "r", "d", " ", "f", "o", "u", "r", "t", "h">>

TestExpectedQuoted == << <<"e", "c", "h", "o">>, <<"f", "i", "r", "s", "t", " ", "a", "r", "g", "u", "m", "e", "n", "t">>, <<"s", "e", "c", "o", "n", "d", " ", "a", "r", "g", "u", "m", "e", "n", "t">> >>

TestExpectedPlain == << <<"e", "c", "h", "o">>, <<"f", "i", "r", "s", "t">>, <<"s", "e", "c", "o", "n", "d">>, <<"t", "h", "i", "r", "d">>, <<"f", "o", "u", "r", "t", "h">> >>

SplitLines == SeqsUpTo(LineAlphabet, MaxLineLen) \cup {TestLineDouble, TestLineSingle, TestLinePlain}

\* token lists for the round trip: tokens without quote and without space
TokenLists == SeqsUpTo(SeqsUpTo(WordAlphabet, MaxTokenLen), MaxTokens)

NoOutput == << <<"?">> >>

TkIdle == [mode |-> "idle", toks |-> <<>>, line |-> <<>>,
           main |-> NoOutput, shell |-> NoOutput, parse |-> NoOutput]

TkStart(mode, toks, line) == [TkIdle EXCEPT !.mode = mode, !.toks = toks, !.line = line]

NoProcs == <<>>

StdinOf(source) == [source |-> source, eof |-> FALSE]

SplitInit ==
    /\ tk \in {TkStart("line", <<>>, l) : l \in SplitLines}
              \cup {TkStart("join", t, Concat(t, Space)) : t \in TokenLists}
    /\ procs = NoProcs
    /\ stdin = StdinOf("piped")

\* src/main.rs Shell::execute: the line is tokenized by splitter::split_arguments
MainExecute ==
    /\ tk.mode # "idle" /\ tk.main = NoOutput
    /\ tk' = [tk EXCEPT !.main = split_arguments(tk.line)]
    /\ UNCHANGED <<procs, stdin>>

\* src/shell/splitter.rs: split_arguments as its tests call it
ShellSplit ==
    /\ tk.mode # "idle" /\ tk.shell = NoOutput
    /\ tk' = [tk EXCEPT !.shell = shell_split_arguments(tk.line)]
    /\ UNCHANGED <<procs, stdin>>

\* src/shell/mod.rs Shell::parse, line 81: the line is tokenized by split_whitespace
ParseTokenize ==
    /\ tk.mode # "idle" /\ tk.parse = NoOutput
    /\ tk' = [tk EXCEPT !.parse = split_whitespace(tk.line)]
    /\ UNCHANGED <<procs, stdin>>

SplitNext == MainExecute \/ ShellSplit \/ ParseTokenize

SpecSplit == SplitInit /\ [][SplitNext]_vars

(***************************************************************************)
(* The process environment, the file system and the descriptor table       *)
(***************************************************************************)
MaxFd == 4

MaxProcs == 3

MaxExit == 2

\* the environment the shell inherits: std::env::vars(), in order
Environ == << [key |-> <<"H">>, value |-> <<"e", "n", "v">>] >>

\* the values Shell.variables (a public field) may hold
VariableChoices == {
    <<>>,
    << [key |-> <<"F">>, value |-> <<"b", "a", "r">>],
       [key |-> <<"H">>, value |-> <<"l", "o", "c">>] >> }

HasKey(map, name) == \E i \in 1..Len(map) : map[i].key = name

\* HashMap::get / std::env::var: the value stored under the name
Lookup(map, name) == map[CHOOSE i \in 1..Len(map) : map[i].key = name].value

\* vars().map(|(key, value)| format!("{}={}", key, value)).collect()
EnvStrings == [i \in 1..Len(Environ) |-> Environ[i].key \o <<"=">> \o Environ[i].value]

\* Shell.path and what read_dir finds in each directory, in listing order
\* (/n holds ls but cannot be read)
ShellPath == << <<"/", "n">>, <<"/", "u">>, <<"/", "b">> >>

DirEntries(dir) ==
    IF dir = <<"/", "u">> THEN << <<"c", "p">> >>
    ELSE IF dir = <<"/", "b">> THEN << <<"c", "p">>, <<"l", "s">> >>
    ELSE IF dir = <<"/", "n">> THEN << <<"l", "s">> >>
    ELSE <<>>

DirReadable(dir) == dir \in {<<"/", "u">>, <<"/", "b">>}

\* the open files: what a descriptor refers to
NoFile == [path |-> <<>>, flags |-> {}, mode |-> {}]

StdFile(name) == [path |-> <<name>>, flags |-> {"O_RDWR"}, mode |-> {}]

OpenedFile(path, flags, mode) == [path |-> path, flags |-> flags, mode |-> mode]

Fds == 0..MaxFd

StdFds == [fd \in Fds |-> IF fd = 0 THEN StdFile("stdin")
                          ELSE IF fd = 1 THEN StdFile("stdout")
                          ELSE IF fd = 2 THEN StdFile("stderr")
                          ELSE NoFile]

FreeFds(fds) == {fd \in Fds : fds[fd] = NoFile}

LowestFree(fds) == CHOOSE fd \in FreeFds(fds) : \A other \in FreeFds(fds) : fd <= other

\* the results of the fallible operations
Ok(v) == [ok |-> TRUE, v |-> v, n |-> 0, e |-> "none"]

OkInt(n) == [ok |-> TRUE, v |-> "int", n |-> n, e |-> "none"]

Err(e) == [ok |-> FALSE, v |-> "none", n |-> 0, e |-> e]

\* native::open_file: open(2) returns the lowest free descriptor, or fails
\* (osOk: the file system lets the path be opened with these flags)
open_file(fds, path, flags, mode, osOk) ==
    IF ~osOk \/ FreeFds(fds) = {} THEN [res |-> Err("Errno"), fds |-> fds]
    ELSE [res |-> OkInt(LowestFree(fds)),
          fds |-> [fds EXCEPT ![LowestFree(fds)] = OpenedFile(path, flags, mode)]]

replace_fdi_swapped(fds, to_replace, replacement) ==
    IF replacement \notin Fds \/ to_replace \notin Fds THEN [res |-> Err("Errno"), fds |-> fds]
    ELSE IF fds[to_replace] = NoFile THEN [res |-> Err("Errno"), fds |-> fds]
    ELSE [res |-> Ok("unit"), fds |-> [fds EXCEPT ![replacement] = fds[to_replace]]]

replace_fdi_keeps_first(fds, to_replace, replacement) ==
    IF replacement \notin Fds \/ to_replace \notin Fds THEN [res |-> Err("Errno"), fds |-> fds]
    ELSE IF fds[replacement] = NoFile THEN [res |-> Err("Errno"), fds |-> fds]
    ELSE IF fds[to_replace] # StdFds[to_replace] THEN [res |-> Ok("unit"), fds |-> fds]
    ELSE [res |-> Ok("unit"), fds |-> [fds EXCEPT ![to_replace] = fds[replacement]]]

\* native::replace_fdi: dup2(replacement, to_replace)
replace_fdi(fds, to_replace, replacement) ==
    IF replacement \notin Fds \/ to_replace \notin Fds THEN [res |-> Err("Errno"), fds |-> fds]
    ELSE IF fds[replacement] = NoFile THEN [res |-> Err("Errno"), fds |-> fds]
    ELSE [res |-> Ok("unit"), fds |-> [fds EXCEPT ![to_replace] = fds[replacement]]]

(***************************************************************************)
(* Shell::parse_shell, one iteration of its loop at a time                 *)
(***************************************************************************)
Digits == <<"0", "1", "2", "3", "4", "5", "6", "7", "8", "9">>

IsDigit(c) == \E d \in 1..10 : Digits[d] = c

DigitValue(c) == (CHOOSE d \in 1..10 : Digits[d] = c) - 1

RECURSIVE DecimalValue(_)
DecimalValue(s) == IF s = <<>> THEN 0 ELSE 10 * DecimalValue(Front(s)) + DigitValue(Last(s))

MaxI32 == 2147483647

\* str::parse::<i32>(): an optional sign and decimal digits that fit 32 bits
ParseFd(s) ==
    LET signed == s # <<>> /\ s[1] \in {"+", "-"}
        digits == IF signed THEN Tail(s) ELSE s
    IN IF digits = <<>> \/ \E i \in 1..Len(digits) : ~IsDigit(digits[i]) THEN Err("NotFound")
       ELSE IF Len(digits) > 10 \/ DecimalValue(digits) > MaxI32 + (IF signed /\ s[1] = "-" THEN 1 ELSE 0)
            THEN Err("NotFound")
       ELSE OkInt(IF signed /\ s[1] = "-" THEN 0 - DecimalValue(digits) ELSE DecimalValue(digits))

ExpandEnvironmentFirst(name, variables) ==
    IF HasKey(Environ, name) THEN Lookup(Environ, name)
    ELSE IF HasKey(variables, name) THEN Lookup(variables, name)
    ELSE <<>>

\* lines 142-144: self.variables.get(&arg) ... unwrap_or(var(&arg).unwrap_or(String::new()))
Expand(name, variables) ==
    IF HasKey(variables, name) THEN Lookup(variables, name)
    ELSE IF HasKey(Environ, name) THEN Lookup(Environ, name)
    ELSE <<>>

\* the state of the loop: the iterator, result, is_double, in_double
ParseShellStart(arguments) ==
    [arguments |-> arguments, result |-> <<>>, is_double |-> FALSE, in_double |-> <<>>]

IterContinue(ps, fds) == [kind |-> "continue", res |-> Ok("unit"), ps |-> ps, fds |-> fds]

IterFail(res, ps, fds) == [kind |-> "return", res |-> res, ps |-> ps, fds |-> fds]

OldFdDefaultsToStderr(arg, index) ==
    IF StartsWith(arg, <<">">>) THEN OkInt(2) ELSE ParseFd(Take(arg, index - 1))

\* lines 148-152: the descriptor to replace
OldFd(arg, index) == IF StartsWith(arg, <<">">>) THEN OkInt(1) ELSE ParseFd(Take(arg, index - 1))

\* lines 147-173: arg holds '>' at position index (1-based) and is not quoted
Redirect(arg, index, ps, fds, osOk) ==
    LET old_fd == OldFd(arg, index)
        rest == ps.arguments
        taken == [ps EXCEPT !.arguments = IF rest = <<>> THEN <<>> ELSE Tail(rest)]
    IN IF ~old_fd.ok THEN IterFail(old_fd, ps, fds)
       ELSE IF StartsWith(Drop(arg, index - 1), <<">", "&">>)
       THEN IF EndsWith(arg, <<">", "&">>)
            THEN IF rest = <<>> THEN IterFail(Err("NotFound"), ps, fds)
                 ELSE LET new_fd == ParseFd(Head(rest))
                          dup == replace_fdi(fds, old_fd.n, new_fd.n)
                      IN IF ~new_fd.ok THEN IterFail(new_fd, taken, fds)
                         ELSE IF ~dup.res.ok THEN IterFail(dup.res, taken, fds)
                         ELSE IterContinue(taken, dup.fds)
            ELSE LET new_fd == ParseFd(Drop(arg, index + 1))
                     dup == replace_fdi(fds, old_fd.n, new_fd.n)
                 IN IF ~new_fd.ok THEN IterFail(new_fd, ps, fds)
                    ELSE IF ~dup.res.ok THEN IterFail(dup.res, ps, fds)
                    ELSE IterContinue(ps, dup.fds)
       ELSE IF Len(arg) = 1 /\ rest = <<>> THEN IterFail(Err("NotFound"), ps, fds)
       ELSE LET after == IF Len(arg) = 1 THEN taken ELSE ps
                path == IF Len(arg) = 1 THEN Head(rest) ELSE Drop(arg, 1)
                opened == open_file(fds, path, {"O_CREAT", "O_WRONLY"}, {"S_IRUSR"}, osOk)
                dup == replace_fdi(opened.fds, old_fd.n, opened.res.n)
            IN IF ~opened.res.ok THEN IterFail(opened.res, after, fds)
               ELSE IF ~dup.res.ok THEN IterFail(dup.res, after, opened.fds)
               ELSE IterContinue(after, dup.fds)

\* lines 131-185: one pass through the loop body (the caller has checked that
\* the iterator is not empty)
ParseShellIter(ps0, fds, variables, osOk) ==
    LET arg0 == Head(ps0.arguments)
        ps == [ps0 EXCEPT !.arguments = Tail(ps0.arguments)]
        opens == StartsWith(arg0, <<DQuote>>)
        dbl1 == IF opens THEN ~ps.is_double ELSE ps.is_double
        arg1 == IF opens THEN Tail(arg0) ELSE arg0
        arg2 == IF StartsWith(arg1, <<"$">>) THEN Expand(Tail(arg1), variables) ELSE arg1
        index == Find(arg2, ">")
        closes == EndsWith(arg2, <<DQuote>>)
        dbl2 == IF closes THEN ~dbl1 ELSE dbl1
        arg3 == IF closes THEN Front(arg2) ELSE arg2
    IN IF ~dbl1 /\ index > 0
       THEN Redirect(arg2, index, [ps EXCEPT !.is_double = dbl1], fds, osOk)
       ELSE IterContinue([ps EXCEPT !.is_double = dbl2,
                                    !.result = IF ~dbl2 THEN Append(@, arg3) ELSE @,
                                    !.in_double = IF dbl2 THEN @ \o arg3 ELSE @], fds)

(***************************************************************************)
(* Shell: command resolution, login mode, the files it interprets          *)
(***************************************************************************)
Cwd == <<"/", "w">>

Home == <<"/", "h">>

RECURSIVE ScanEntries(_, _, _)
\* lines 202-208: the entries of one directory, in listing order
ScanEntries(dir, entries, name) ==
    IF entries = <<>> THEN [found |-> FALSE, path |-> <<>>]
    ELSE IF Head(entries) = name THEN [found |-> TRUE, path |-> dir \o <<"/">> \o name]
    ELSE ScanEntries(dir, Tail(entries), name)

RECURSIVE ScanPath(_, _)
\* lines 200-211: the directories of Shell.path, in list order
ScanPath(dirs, name) ==
    IF dirs = <<>> THEN [found |-> FALSE, path |-> <<>>]
    ELSE LET here == IF DirReadable(Head(dirs))
                     THEN ScanEntries(Head(dirs), DirEntries(Head(dirs)), name)
                     ELSE [found |-> FALSE, path |-> <<>>]
         IN IF here.found THEN here ELSE ScanPath(Tail(dirs), name)

\* the scripts of the file system, as lines; a path that is not here cannot be opened
ScriptS == <<"s">>

ScriptX == <<"x">>

EtcLogin == <<"/", "e", "t", "c", "/", ".", "l", "o", "g", "i", "n">>

RcCshrc == <<".", "c", "s", "h", "r", "c">>

RcLogin == <<".", "l", "o", "g", "i", "n">>

HomeFile(name) == Home \o <<"/">> \o name

FileExists(path) == path \in {ScriptS, ScriptX, EtcLogin, HomeFile(RcCshrc), HomeFile(RcLogin)}

FileLines(path) ==
    IF path = ScriptS THEN << <<"l", "s">>, <<"l", "s", " ", "o">> >>
    ELSE IF path = ScriptX THEN << <<"#", "!", "/", "b">>, <<"l", "s">> >>
    ELSE IF path = EtcLogin THEN << <<"c", "p">>, <<"l", "s", " ", ">", "o">> >>
    ELSE IF path = HomeFile(RcCshrc) THEN << <<"p", "w", "d">>, <<"l", "s">> >>
    ELSE IF path = HomeFile(RcLogin) THEN << <<"c", "p">> >>
    ELSE <<>>

find_path_backwards(name) ==
    IF Contains(name, "/")
    THEN IF name[1] = "/" THEN [found |-> TRUE, path |-> name]
         ELSE [found |-> FileExists(name), path |-> Cwd \o <<"/">> \o name]
    ELSE ScanPath([i \in 1..Len(ShellPath) |-> ShellPath[Len(ShellPath) + 1 - i]], name)

\* Shell::find_path: a name with '/' is taken as a path (an absolute one as it
\* is, a relative one canonicalized against cwd, which needs the file to
\* exist); any other name is searched in Shell.path
find_path(name) ==
    IF Contains(name, "/")
    THEN IF name[1] = "/" THEN [found |-> TRUE, path |-> name]
         ELSE [found |-> FileExists(name), path |-> Cwd \o <<"/">> \o name]
    ELSE ScanPath(ShellPath, name)

is_login_by_any_mark(args) ==
    (args[1] # <<>> /\ args[1][1] = "-") \/ \E i \in 2..Len(args) : args[i] = <<"-", "l">>

\* Shell::is_login (an empty argv ends the process in write_exit)
is_login(args) ==
    IF Len(args) = 1 THEN args[1] # <<>> /\ args[1][1] = "-"
    ELSE IF Len(args) = 2 THEN args[2] = <<"-", "l">>
    ELSE FALSE

\* check_file: stat fails for a missing file; otherwise owner or group may read
\* (/etc/.login belongs to another user and group and is readable by all;
\* ~/.login is ours but not readable)
FileReadableByUs(path) == path \notin {HomeFile(RcLogin), EtcLogin}

check_file(path) == IF FileExists(path) THEN Ok(IF FileReadableByUs(path) THEN "true" ELSE "false") ELSE Err("Errno")

(***************************************************************************)
(* Frames: the calls a process is in, the caller below the callee          *)
(***************************************************************************)
OnStartFrame(login) ==
    [fn |-> "on_start",
     todo |-> IF login THEN << [kind |-> "interpret", path |-> EtcLogin],
                               [kind |-> "interpret_rc", path |-> RcCshrc],
                               [kind |-> "interpret_rc", path |-> RcLogin] >>
              ELSE << [kind |-> "interpret_rc", path |-> RcCshrc] >>]

InterpretRcFrame(name) == [fn |-> "interpret_rc", name |-> name]

InterpretFrame(path) == [fn |-> "interpret", stage |-> "open", path |-> path, lines |-> <<>>]

HandleArgumentsFrame(argv) == [fn |-> "handle_arguments", args |-> Tail(argv)]

InteractFrame == [fn |-> "interact", stage |-> "prompt"]

ParseFrame(line) == [fn |-> "parse", line |-> line]

ForkFrame(closure) == [fn |-> "fork_process", stage |-> "fork", closure |-> closure]

\* the closure Shell::parse hands to fork_process (lines 106-118)
CommandClosure(argument, arguments, environment) ==
    [fn |-> "closure", kind |-> "command", stage |-> "find_path",
     argument |-> argument, environment |-> environment, path |-> <<>>,
     ps |-> ParseShellStart(arguments)]

\* the closure Shell::interpret hands to fork_process (lines 59-68)
ScriptClosure(path) ==
    [fn |-> "closure", kind |-> "script", stage |-> "execute",
     argument |-> path, environment |-> EnvStrings, path |-> path,
     ps |-> ParseShellStart(<<>>)]

Top(pr) == Last(pr.frames)

Pop(pr) == [pr EXCEPT !.frames = Front(@)]

Push(pr, frame) == [pr EXCEPT !.frames = Append(@, frame)]

SetTop(pr, frame) == [pr EXCEPT !.frames = Append(Front(@), frame)]

HasFrame(pr, fn) == \E i \in 1..Len(pr.frames) : pr.frames[i].fn = fn

\* the shell's caller: when the outermost call returns, the process ends, an
\* error giving a non-zero exit code
MainExit(pr, res) ==
    [pr EXCEPT !.st = "zombie", !.frames = <<>>, !.code = IF res.ok THEN 0 ELSE 1]

InteractRetriesNotFound(res) ==
    IF res.ok THEN (IF res.v = "true" THEN "break" ELSE "loop")
    ELSE IF res.e = "NotFound" THEN "loop" ELSE "return"

InteractIgnoresExit(res) == IF ~res.ok THEN "return" ELSE "loop"

InteractSwallowsError(res) ==
    IF res.ok /\ res.v = "true" THEN "break" ELSE "loop"

\* Shell::interact lines 242-244: self.parse(&input)? and the break
InteractAfterParse(res) ==
    IF ~res.ok THEN "return" ELSE IF res.v = "true" THEN "break" ELSE "loop"

RECURSIVE Deliver(_, _)
\* a call returned res: the caller, now on top of the stack, goes on with it
Deliver(pr, res) ==
    IF pr.frames = <<>> THEN MainExit(pr, res)
    ELSE LET top == Top(pr) IN
         CASE top.fn = "fork_process" ->
                \* line 172: Err(actions()), the closure came back with its error
                Deliver(Pop(pr), res)
           [] top.fn = "parse" ->
                \* lines 106-119: self.status = fork_process(..)?; Ok(false)
                IF res.ok THEN Deliver(Pop([pr EXCEPT !.status = res.n]), Ok("false"))
                ELSE Deliver(Pop(pr), res)
           [] top.fn = "interact" ->
                IF InteractAfterParse(res) = "loop" THEN SetTop(pr, [top EXCEPT !.stage = "prompt"])
                ELSE IF InteractAfterParse(res) = "break" THEN Deliver(Pop(pr), Ok("unit"))
                ELSE Deliver(Pop(pr), res)
           [] top.fn = "interpret" ->
                \* line 72: self.parse(line)?;  line 68: fork_process(..)?; then Ok(())
                IF ~res.ok THEN Deliver(Pop(pr), res)
                ELSE IF top.stage = "shebang" THEN Deliver(Pop(pr), Ok("unit"))
                ELSE pr
           [] top.fn = "interpret_rc" ->
                \* line 231: the result of interpret is the result
                Deliver(Pop(pr), res)
           [] OTHER ->
                \* on_start and handle_arguments: every call is followed by '?'
                IF ~res.ok THEN Deliver(Pop(pr), res) ELSE pr

\* the function on top of the stack returns res
Return(pr, res) == Deliver(Pop(pr), res)

(***************************************************************************)
(* The input lines                                                         *)
(***************************************************************************)
MaxAssign == 1

MaxArgs == 2

tAssign == <<"F", "=", "b">>

tLs == <<"l", "s">>

tWord == <<"o">>

tCp == <<"c", "p">>

tExit == <<"e", "x", "i", "t">>

tPwd == <<"p", "w", "d">>

tVarF == <<"$", "F">>

tVarH == <<"$", "H">>

tToFile == <<">", "o">>

tTo == <<">">>

tDup == <<"2", ">", "&", "1">>

tQuoted == <<DQuote, "a">>

\* the examples of the specification: FOO=bar ls -l and ls >out.txt
ExampleAssign == <<"F", "O", "O", "=", "b", "a", "r">>

ExampleFlag == <<"-", "l">>

ExampleOut == <<"o", "u", "t", ".", "t", "x", "t">>

ExamplePeeling == ExampleAssign \o Space \o tLs \o Space \o ExampleFlag

ExampleToFile == tLs \o Space \o <<">">> \o ExampleOut

\* fields of redirections and of quoted runs
tOne == <<"1">>

tDupTo == <<"2", ">", "&">>

tDupOut == <<">", "&", "2">>

tDupOutTo == <<">", "&">>

tErrToFile == <<"2", ">", "e">>

tErrTo == <<"2", ">">>

tToOther == <<">", "e">>

tBadSource == <<"a", ">", "b">>

tBadTarget == <<">", "&", "x">>

tLetter == <<"x">>

tOpenQuote == <<DQuote, "a">>

tCloseQuote == <<"b", DQuote>>

LsWith(fields) == Concat(<<tLs>> \o fields, Space)

\* lines with redirections to a descriptor, with an explicit source, in
\* both orders, malformed ones, and double-quoted runs
RedirectionLines ==
    {LsWith(<<tDupTo, tOne>>), LsWith(<<tDupOut>>), LsWith(<<tDupOutTo, <<"2">>, tWord>>),
     LsWith(<<tErrToFile>>), LsWith(<<tErrTo, <<"e">>>>), LsWith(<<tErrToFile, tWord>>),
     LsWith(<<tToFile, tToOther>>), LsWith(<<tDup, tToFile, tWord>>), LsWith(<<tToFile, tDup, tWord>>),
     LsWith(<<tToFile, tBadSource>>), LsWith(<<tToFile, tBadTarget>>), LsWith(<<tToFile, tDupOutTo, tLetter>>),
     LsWith(<<tToFile, tErrTo>>), LsWith(<<tToFile, tDupOutTo>>), LsWith(<<tToFile, tDupTo>>),
     LsWith(<<tWord, tTo>>)}

QuotedLines ==
    {LsWith(<<tOpenQuote, tCloseQuote>>), LsWith(<<tOpenQuote, tCloseQuote, tWord>>),
     LsWith(<<tWord, tOpenQuote, tWord>>), LsWith(<<<<DQuote, "a", DQuote>>>>)}

CommandTokens == {tLs, tWord}

ArgTokens == {tWord, tAssign, tVarF, tVarH, tToFile, tTo, tDup, tQuoted}

\* lines typed at the terminal: assignments, a command, arguments; the
\* built-ins; lines without a command; a line with irregular spacing
Lines ==
    {Concat(pre \o <<cmd>> \o args, Space) :
        pre \in SeqsUpTo({tAssign}, MaxAssign), cmd \in CommandTokens, args \in SeqsUpTo(ArgTokens, MaxArgs)}
    \cup {Concat(pre \o <<cmd>>, Space) : pre \in SeqsUpTo({tAssign}, MaxAssign), cmd \in {tExit, tPwd}}
    \cup {Concat(pre, Space) : pre \in SeqsUpTo({tAssign}, MaxAssign)}
    \cup {<<" ">> \o tLs \o <<" ", "\t">> \o tWord \o <<" ">>}
    \cup {ExamplePeeling, ExampleToFile}
    \cup RedirectionLines \cup QuotedLines \cup {tCp}

\* lines arriving when the shell was started on scripts
PipedLines == {tLs, tWord, tExit, tCp}

InputLines == IF stdin.source = "typed" THEN Lines ELSE PipedLines

(***************************************************************************)
(* Processes                                                               *)
(***************************************************************************)
NoImage == [path |-> <<>>, argv |-> <<>>, envp |-> <<>>, line |-> <<>>, kind |-> "none"]

\* Shell::new: the Shell of a process started with argv, about to call entry
RootProc(entry, variables, argv) ==
    [st |-> "run", role |-> "shell", parent |-> 0,
     frames |-> << IF entry = "on_start" THEN OnStartFrame(is_login(argv))
                   ELSE IF entry = "handle_arguments" THEN HandleArgumentsFrame(argv)
                   ELSE InteractFrame >>,
     fds |-> StdFds, status |-> 0, variables |-> variables, code |-> 0,
     ops |-> {}, image |-> NoImage, argv |-> argv, is_login |-> is_login(argv)]

Pids == 1..MaxProcs

Running(p) == p \in DOMAIN procs /\ procs[p].st = "run" /\ procs[p].frames # <<>>

At(p, fn) == Running(p) /\ Top(procs[p]).fn = fn

AtStage(p, fn, stage) == At(p, fn) /\ Top(procs[p]).stage = stage

\* what a process forked by the shell has done of the shell's loop
Did(pr, op) == IF pr.role = "child" THEN [pr EXCEPT !.ops = @ \cup {op}] ELSE pr

Set(p, pr) == procs' = [procs EXCEPT ![p] = pr]

Argv0 == <<"r", "s", "h">>

LoginArgv0 == <<"-", "r", "s", "h">>

HelloRsh == <<"h", "e", "l", "l", "o", ".", "r", "s", "h">>

FlagLogin == <<"-", "l">>

\* the argument lists of the tests is_login_*, and some more
StartArgvs ==
    {<<Argv0>>, <<LoginArgv0>>, <<Argv0, FlagLogin>>, <<Argv0, HelloRsh>>, <<LoginArgv0, HelloRsh>>,
     <<Argv0, FlagLogin, HelloRsh>>, <<LoginArgv0, FlagLogin>>, <<LoginArgv0, FlagLogin, HelloRsh>>,
     <<Argv0, HelloRsh, FlagLogin>>}

HandleArgvs == {<<Argv0, <<"-">>>>, <<Argv0, <<"-", "v">>, ScriptS>>, <<Argv0, ScriptX, ScriptS>>, <<Argv0, <<"m">>>>}

Init ==
    /\ tk = TkIdle
    /\ \/ /\ stdin = StdinOf("typed")
          /\ \E variables \in VariableChoices : procs = <<RootProc("interact", variables, <<Argv0>>)>>
       \/ /\ stdin = StdinOf("piped")
          /\ \/ \E argv \in HandleArgvs : procs = <<RootProc("handle_arguments", <<>>, argv)>>
             \/ \E argv \in StartArgvs : procs = <<RootProc("on_start", <<>>, argv)>>

\* Shell::on_start
OnStart(p) ==
    /\ At(p, "on_start")
    /\ LET pr == procs[p]
           top == Top(pr)
       IN IF top.todo = <<>> THEN Set(p, Return(pr, Ok("unit")))
          ELSE LET item == Head(top.todo)
                   rest == SetTop(pr, [top EXCEPT !.todo = Tail(@)])
               IN Set(p, Push(rest, IF item.kind = "interpret" THEN InterpretFrame(item.path)
                                    ELSE InterpretRcFrame(item.path)))
    /\ UNCHANGED <<tk, stdin>>

\* Shell::interpret_rc
InterpretRc(p) ==
    /\ At(p, "interpret_rc")
    /\ LET pr == procs[p]
           rc_file == HomeFile(Top(pr).name)
           checked == check_file(rc_file)
       IN IF ~checked.ok THEN Set(p, Return(pr, checked))
          ELSE IF checked.v = "true" THEN Set(p, Push(pr, InterpretFrame(rc_file)))
          ELSE Set(p, Return(pr, Ok("unit")))
    /\ UNCHANGED <<tk, stdin>>

\* Shell::interpret lines 56-70: open the file, read its first line, and
\* either fork for a '#!' file or read the rest of the file
InterpretOpen(p) ==
    /\ AtStage(p, "interpret", "open")
    /\ LET pr == Did(procs[p], "read_line")
           top == Top(pr)
           opened == open_file(pr.fds, top.path, {"O_RDONLY"}, {}, FileExists(top.path))
           content == FileLines(top.path)
           header == IF content = <<>> THEN <<>> ELSE Head(content)
           rest == IF content = <<>> THEN <<>> ELSE Tail(content)
           now == [pr EXCEPT !.fds = opened.fds]
       IN IF ~opened.res.ok THEN Set(p, Return(pr, opened.res))
          ELSE IF StartsWith(header, <<"#", "!">>)
          THEN Set(p, Push(SetTop(now, [top EXCEPT !.stage = "shebang"]), ForkFrame(ScriptClosure(top.path))))
          ELSE Set(p, SetTop(now, [top EXCEPT !.stage = "loop", !.lines = rest]))
    /\ UNCHANGED <<tk, stdin>>

\* Shell::interpret lines 71-75: the loop over content.lines()
InterpretLoop(p) ==
    /\ AtStage(p, "interpret", "loop")
    /\ LET pr == procs[p]
           top == Top(pr)
       IN IF top.lines = <<>> THEN Set(p, Return(pr, Ok("unit")))
          ELSE Set(p, Push(SetTop(Did(pr, "next_line"), [top EXCEPT !.lines = Tail(@)]),
                           ParseFrame(Head(top.lines))))
    /\ UNCHANGED <<tk, stdin>>

\* Shell::handle_arguments
HandleArguments(p) ==
    /\ At(p, "handle_arguments")
    /\ LET pr == procs[p]
           top == Top(pr)
       IN IF top.args = <<>> THEN Set(p, Return(pr, Ok("unit")))
          ELSE LET arg == Head(top.args)
                   rest == SetTop(pr, [top EXCEPT !.args = Tail(@)])
               IN IF arg = <<"-">> THEN Set(p, Push(rest, InteractFrame))
                  ELSE IF StartsWith(arg, <<"-">>) THEN Set(p, rest)
                  ELSE Set(p, Push(rest, InterpretFrame(arg)))
    /\ UNCHANGED <<tk, stdin>>

\* Shell::interact line 240: write_to_file(1, &self.prompt)?
InteractPrompt(p) ==
    /\ AtStage(p, "interact", "prompt")
    /\ LET pr == Did(procs[p], "prompt")
       IN \E written \in BOOLEAN :
            IF written THEN Set(p, SetTop(pr, [Top(pr) EXCEPT !.stage = "read"]))
            ELSE Set(p, Return(pr, Err("Errno")))
    /\ UNCHANGED <<tk, stdin>>

\* Shell::interact lines 241-242: read_line(0)? and the call of parse; at the
\* end of the input read returns 0 and read_line gives the empty line
InteractRead(p) ==
    /\ AtStage(p, "interact", "read")
    /\ LET pr == Did(procs[p], "read_line")
           parsing == SetTop(pr, [Top(pr) EXCEPT !.stage = "parse"])
       IN \/ /\ ~stdin.eof
             /\ \E line \in InputLines : Set(p, Push(parsing, ParseFrame(line)))
             /\ UNCHANGED stdin
          \/ /\ stdin' = [stdin EXCEPT !.eof = TRUE]
             /\ Set(p, Push(parsing, ParseFrame(<<>>)))
          \/ /\ Set(p, Return(pr, Err("Errno")))
             /\ UNCHANGED stdin
    /\ UNCHANGED tk

RECURSIVE ParseLoop(_, _)
\* Shell::parse lines 86-96: tokens holding '=' go to the environment, the
\* first other token is the command
ParseLoop(arguments, environment) ==
    IF arguments = <<>>
    THEN [found |-> FALSE, argument |-> <<>>, arguments |-> <<>>, environment |-> environment]
    ELSE IF Contains(Head(arguments), "=")
         THEN ParseLoop(Tail(arguments), Append(environment, Head(arguments)))
         ELSE [found |-> TRUE, argument |-> Head(arguments), arguments |-> Tail(arguments),
               environment |-> environment]

ParseLineDropsInherited(line) == ParseLoop(split_whitespace(line), <<>>)

\* Shell::parse lines 81-96
ParseLine(line) == ParseLoop(split_whitespace(line), EnvStrings)

\* Shell::parse: up to the built-ins, or to the call of fork_process
Parse(p) ==
    /\ At(p, "parse")
    /\ LET pr == procs[p]
           parsed == ParseLine(Top(pr).line)
       IN IF ~parsed.found THEN Set(p, Return(pr, Err("NotFound")))
          ELSE IF parsed.argument = tExit THEN Set(p, Return(pr, Ok("true")))
          ELSE IF parsed.argument = tPwd
          THEN \E written \in BOOLEAN :
                 Set(p, Return(pr, IF written THEN Ok("false") ELSE Err("Errno")))
          ELSE Set(p, Push(pr, ForkFrame(CommandClosure(parsed.argument, parsed.arguments,
                                                        parsed.environment))))
    /\ UNCHANGED <<tk, stdin>>

\* fork_process lines 171-181: the arm of the match taken for a value of fork()
ForkArmSwapped(ret) == IF ret = 0 THEN "parent" ELSE IF ret = 0 - 1 THEN "error" ELSE "child"

ForkArm(ret) == IF ret = 0 THEN "child" ELSE IF ret = 0 - 1 THEN "error" ELSE "parent"

\* a process coming out of fork() with the value ret
AfterFork(pr, ret) ==
    LET top == Top(pr) IN
    CASE ForkArm(ret) = "child" -> Push(SetTop(pr, [top EXCEPT !.stage = "child"]), top.closure)
      [] ForkArm(ret) = "error" -> Return(pr, Err("Errno"))
      [] OTHER -> SetTop(pr, [top EXCEPT !.stage = "wait"])

FreePids == Pids \ DOMAIN procs

\* fork_process line 171: fork() fails, or gives a child that is a copy of the
\* caller: same frames, same Shell, a copy of the descriptor table
Fork(p) ==
    /\ AtStage(p, "fork_process", "fork")
    /\ LET pr == Did(procs[p], "fork")
       IN \/ Set(p, AfterFork(pr, 0 - 1))
          \/ /\ FreePids # {}
             /\ LET c == CHOOSE q \in FreePids : \A other \in FreePids : q <= other
                    child == [pr EXCEPT !.role = "child", !.parent = p, !.ops = {}]
                IN procs' = [q \in DOMAIN procs \cup {c} |->
                                IF q = p THEN AfterFork(pr, c)
                                ELSE IF q = c THEN AfterFork(child, 0)
                                ELSE procs[q]]
    /\ UNCHANGED <<tk, stdin>>

Children(p) == {c \in DOMAIN procs : procs[c].parent = p}

Zombies(p) == {c \in Children(p) : procs[c].st = "zombie"}

\* waitpid(-1, &status, 0) returns once a child has terminated, or at once
\* when the caller has no child
WaitpidNoHang(p) == TRUE

WaitpidReturns(p) == Zombies(p) # {} \/ Children(p) = {}

\* the status word waitpid stores for a child that exited with a code
WaitStatus(code) == (code % 256) * 256

\* fork_process lines 174-180: the parent's arm
Wait(p) ==
    /\ AtStage(p, "fork_process", "wait")
    /\ WaitpidReturns(p)
    /\ IF Zombies(p) # {}
       THEN \E z \in Zombies(p) :
              procs' = [q \in DOMAIN procs \ {z} |->
                          IF q = p THEN Return(procs[p], OkInt(WaitStatus(procs[z].code)))
                          ELSE procs[q]]
       ELSE Set(p, Return(procs[p], OkInt(0)))
    /\ UNCHANGED <<tk, stdin>>

\* the closure of Shell::parse, lines 107-110
FindPath(p) ==
    /\ AtStage(p, "closure", "find_path")
    /\ LET pr == procs[p]
           top == Top(pr)
           path == find_path(top.argument)
       IN IF ~path.found THEN Set(p, Return(pr, Err("NotFound")))
          ELSE Set(p, SetTop(pr, [top EXCEPT !.stage = "parse_shell", !.path = path.path]))
    /\ UNCHANGED <<tk, stdin>>

\* the closure of Shell::parse, lines 111-114: parse_shell, one field at a time
ParseShell(p) ==
    /\ AtStage(p, "closure", "parse_shell")
    /\ LET pr == procs[p]
           top == Top(pr)
       IN IF top.ps.arguments = <<>> THEN Set(p, SetTop(pr, [top EXCEPT !.stage = "execute"]))
          ELSE \E osOk \in BOOLEAN :
                 LET iter == ParseShellIter(top.ps, pr.fds, pr.variables, osOk)
                     now == [pr EXCEPT !.fds = iter.fds]
                 IN IF iter.kind = "continue" THEN Set(p, SetTop(now, [top EXCEPT !.ps = iter.ps]))
                    ELSE Set(p, Return(now, iter.res))
    /\ UNCHANGED <<tk, stdin>>

\* the line Shell::parse was given, for a process inside parse
LineOf(pr) ==
    IF HasFrame(pr, "parse")
    THEN pr.frames[CHOOSE i \in 1..Len(pr.frames) : pr.frames[i].fn = "parse"].line
    ELSE <<>>

\* native::execute: execve replaces the image of the process, or fails
Execute(p) ==
    /\ AtStage(p, "closure", "execute")
    /\ LET pr == procs[p]
           top == Top(pr)
           args == IF top.kind = "command" THEN <<top.argument>> \o top.ps.result ELSE <<top.argument>>
       IN \E replaced \in BOOLEAN :
            IF replaced
            THEN Set(p, [pr EXCEPT !.st = "image", !.frames = <<>>,
                                   !.image = [path |-> top.path, argv |-> args,
                                              envp |-> top.environment, line |-> LineOf(pr),
                                              kind |-> top.kind]])
            ELSE Set(p, Return(pr, Err("Errno")))
    /\ UNCHANGED <<tk, stdin>>

\* the program run by execve exits with some code
ImageExit(p) ==
    /\ p \in DOMAIN procs /\ procs[p].st = "image"
    /\ \E code \in 0..MaxExit : Set(p, [procs[p] EXCEPT !.st = "zombie", !.code = code])
    /\ UNCHANGED <<tk, stdin>>

Next ==
    \E p \in Pids :
        \/ OnStart(p) \/ InterpretRc(p) \/ InterpretOpen(p) \/ InterpretLoop(p)
        \/ HandleArguments(p) \/ InteractPrompt(p) \/ InteractRead(p)
        \/ Parse(p) \/ Fork(p) \/ Wait(p)
        \/ FindPath(p) \/ ParseShell(p) \/ Execute(p) \/ ImageExit(p)

Spec == Init /\ [][Next]_vars

\* the processes run on after the input has ended: while some process can
\* take a step, a step is taken (a process blocked in waitpid or ended has no
\* step to take)
LiveSpec == Init /\ [][Next]_vars /\ WF_vars(stdin.eof /\ Next)

(***************************************************************************)
(* Claims about the shell's processes (checked under Spec)                 *)
(***************************************************************************)
IsShell(p) == p \in DOMAIN procs /\ procs[p].role = "shell"

IsChild(p) == p \in DOMAIN procs /\ procs[p].role = "child"

InClosure(p, stages) == At(p, "closure") /\ Top(procs[p]).stage \in stages

RedirectionTarget == {"O_CREAT", "O_WRONLY"}

\* C1: redirections change only the descriptor table of the forked child: in
\* the shell itself descriptors 0, 1 and 2 refer to the files they referred to
\* at start, whatever lines were parsed, and no descriptor of the shell refers
\* to a file opened as a redirection target (the shell only opens the scripts
\* it interprets, read-only, on free descriptors).
C1_RedirectionsOnlyInChild ==
    \A p \in DOMAIN procs :
        procs[p].role = "shell" =>
            \A fd \in Fds :
                \/ procs[p].fds[fd] = StdFds[fd]
                \/ fd > 2 /\ procs[p].fds[fd].flags = {"O_RDONLY"}

\* a child runs with a redirected descriptor 1 while the shell that forked it
\* waits with its own table as it was
C1_Witness ==
    \E p \in DOMAIN procs :
        /\ IsChild(p) /\ procs[p].st = "image"
        /\ procs[p].fds[1].flags = RedirectionTarget
        /\ procs[p].fds[2] = StdFds[1]
        /\ procs[procs[p].parent].fds = StdFds

\* C2: when Shell::parse fails for a line read by Shell::interact in the
\* shell itself, interact does not return: a step that takes the shell out of
\* parse (for any line whose command is not exit) leaves it inside interact.
C2_PerLineErrorsLocal ==
    [][\A p \in DOMAIN procs :
          (/\ procs[p].role = "shell" /\ procs[p].st = "run"
           /\ HasFrame(procs[p], "interact") /\ HasFrame(procs[p], "parse")
           /\ ParseLine(LineOf(procs[p])).argument # tExit)
          => (p \in DOMAIN procs' /\ HasFrame(procs'[p], "interact"))]_vars

C4_OneCommandAtATime ==
    \A p \in DOMAIN procs :
        /\ Cardinality(Children(p)) <= 1
        /\ Children(p) # {} => AtStage(p, "fork_process", "wait")

\* the shell is blocked in waitpid while the program of its child runs
C4_Witness ==
    \E p \in DOMAIN procs :
        /\ IsShell(p) /\ AtStage(p, "fork_process", "wait")
        /\ \E c \in Children(p) : procs[c].st = "image"

\* C5: after an external command whose child exited normally with code c,
\* Shell.status is c: the step in which the shell reaps that child out of
\* waitpid leaves Shell.status equal to the child's exit code.
C5_StatusIsExitCode ==
    [][\A p \in DOMAIN procs : \A z \in DOMAIN procs :
          (/\ procs[z].parent = p /\ procs[z].st = "zombie"
           /\ procs[z].image.kind = "command"
           /\ z \notin DOMAIN procs' /\ p \in DOMAIN procs')
          => procs'[p].status = procs[z].code]_vars

\* the number of leading tokens that hold '='
LeadingAssignments(tokens) ==
    CHOOSE k \in 0..Len(tokens) :
        /\ \A i \in 1..k : Contains(tokens[i], "=")
        /\ k = Len(tokens) \/ ~Contains(tokens[k + 1], "=")

\* the value the specification gives a name: shell-local first, then the
\* environment, else the empty string
ValueOf(name, variables) ==
    IF \E i \in 1..Len(variables) : variables[i].key = name
    THEN variables[CHOOSE i \in 1..Len(variables) : variables[i].key = name].value
    ELSE IF \E i \in 1..Len(Environ) : Environ[i].key = name
    THEN Environ[CHOOSE i \in 1..Len(Environ) : Environ[i].key = name].value
    ELSE <<>>

Expanded(field, variables) ==
    IF field # <<>> /\ field[1] = "$" THEN ValueOf(Tail(field), variables) ELSE field

RECURSIVE ArgumentFields(_, _)
\* the fields that are arguments: a field holding '>' is a redirection, and
\* takes the next field as its operand when it ends with '>' alone or '>&'
ArgumentFields(fields, variables) ==
    IF fields = <<>> THEN <<>>
    ELSE LET field == Expanded(Head(fields), variables) IN
         IF Contains(field, ">")
         THEN ArgumentFields(IF field = <<">">> \/ EndsWith(field, <<">", "&">>)
                             THEN Drop(fields, 2) ELSE Tail(fields), variables)
         ELSE <<field>> \o ArgumentFields(Tail(fields), variables)

Unquoted(fields) == \A i \in 1..Len(fields) : ~Contains(fields[i], DQuote)

\* C8: in the program a child of Shell::parse execs, envp is the inherited
\* environment followed by the leading tokens holding '=', in order; argv[0]
\* is the first token without '='; the rest of argv is the remaining fields
\* that are not redirections, in input order (for fields outside double
\* quotes, which C19 is about), a KEY=VALUE among them being an argument.
C8_AssignmentPeeling ==
    \A p \in DOMAIN procs :
        (procs[p].st = "image" /\ procs[p].image.kind = "command") =>
            LET image == procs[p].image
                tokens == split_whitespace(image.line)
                k == LeadingAssignments(tokens)
                fields == Drop(tokens, k + 1)
            IN /\ k < Len(tokens)
               /\ image.envp = EnvStrings \o Take(tokens, k)
               /\ image.argv # <<>> /\ image.argv[1] = tokens[k + 1]
               /\ Unquoted(fields) => Tail(image.argv) = ArgumentFields(fields, procs[p].variables)

\* FOO=bar ls -l runs ls with the override FOO=bar and argv [ls, -l], and
\* F=b ls F=b runs ls with the argument F=b
C8_Witness ==
    /\ \E p \in DOMAIN procs :
          /\ procs[p].st = "image" /\ procs[p].image.line = ExamplePeeling
          /\ procs[p].image.envp = EnvStrings \o <<ExampleAssign>>
          /\ procs[p].image.argv = <<tLs, ExampleFlag>>

\* the fields of the line parse_shell has taken so far
Consumed(pr) ==
    LET tokens == split_whitespace(LineOf(pr))
        fields == Drop(tokens, LeadingAssignments(tokens) + 1)
    IN Take(fields, Len(fields) - Len(Top(pr).ps.arguments))

Plain(fields) == \A i \in 1..Len(fields) : ~Contains(fields[i], DQuote) /\ ~Contains(fields[i], ">")

\* C9: a field beginning with '$' is replaced by the value of the name after
\* the '$': the shell-local value when there is one, else the value in the
\* environment, else the empty string; and such a field never makes
\* parse_shell fail.
C9_VariableExpansion ==
    \A p \in DOMAIN procs :
        InClosure(p, {"parse_shell", "execute"}) /\ Top(procs[p]).kind = "command" =>
            LET pr == procs[p]
                ps == Top(pr).ps
                taken == Consumed(pr)
            IN /\ Plain(taken) =>
                    /\ Len(ps.result) = Len(taken)
                    /\ \A i \in 1..Len(taken) :
                          taken[i][1] = "$" => ps.result[i] = ValueOf(Tail(taken[i]), pr.variables)
               /\ (ps.arguments # <<>> /\ Head(ps.arguments)[1] = "$") =>
                    \A osOk \in BOOLEAN :
                        ParseShellIter(ps, pr.fds, pr.variables, osOk).kind = "continue"

\* $H and $F were taken with H both shell-local and in the environment and F
\* shell-local only: the result holds the two shell-local values
C9_Witness ==
    /\ \E p \in DOMAIN procs :
          /\ InClosure(p, {"execute"}) /\ Consumed(procs[p]) = <<tVarH, tVarF>>
          /\ HasKey(procs[p].variables, <<"H">>)
          /\ Top(procs[p]).ps.result = << <<"l", "o", "c">>, <<"b", "a", "r">> >>

\* the file a default-source redirection names: the text after '>', or the
\* next token
IsToFile(arguments) ==
    LET field == Head(arguments) IN
    \/ Len(field) >= 2 /\ field[1] = ">" /\ field[2] # "&"
    \/ field = <<">">> /\ Len(arguments) >= 2

ToFilePath(arguments) == IF Head(arguments) = <<">">> THEN arguments[2] ELSE Tail(Head(arguments))

ToFileTaken(arguments) == IF Head(arguments) = <<">">> THEN 2 ELSE 1

\* C10: when parse_shell, outside double quotes, takes a field >path, or a
\* field > followed by the token path, and the file can be opened, descriptor
\* 1 then refers to path opened write-only with create and mode owner-read,
\* and neither the field nor its operand is added to the argument list.
C10_FileRedirection ==
    [][\A p \in DOMAIN procs :
          (/\ InClosure(p, {"parse_shell"})
           /\ Top(procs[p]).ps.arguments # <<>>
           /\ ~Top(procs[p]).ps.is_double
           /\ IsToFile(Top(procs[p]).ps.arguments)
           /\ procs'[p].st = "run" /\ procs'[p].frames # <<>>
           /\ Last(procs'[p].frames).fn = "closure")
          => LET before == Top(procs[p]).ps
                 after == Last(procs'[p].frames).ps
             IN /\ procs'[p].fds[1] = OpenedFile(ToFilePath(before.arguments),
                                                 {"O_CREAT", "O_WRONLY"}, {"S_IRUSR"})
                /\ after.result = before.result
                /\ after.arguments = Drop(before.arguments, ToFileTaken(before.arguments))]_vars

\* ls >out.txt runs ls with argv [ls] and descriptor 1 on out.txt
C10_Witness ==
    \E p \in DOMAIN procs :
        /\ procs[p].st = "image" /\ procs[p].image.line = ExampleToFile
        /\ procs[p].image.argv = <<tLs>>
        /\ procs[p].fds[1] = OpenedFile(ExampleOut, {"O_CREAT", "O_WRONLY"}, {"S_IRUSR"})

\* a string of decimal digits
Numeric(s) == s # <<>> /\ \A i \in 1..Len(s) : s[i] \in {"0", "1", "2", "3", "4", "5", "6", "7", "8", "9"}

\* the part of a field before its first '>' and the part after it
BeforeMark(field) == Take(field, Find(field, ">") - 1)

AfterMark(field) == Drop(field, Find(field, ">"))

\* the source descriptor a redirection field names: 1 when it starts with '>'
SourceOf(field) == IF BeforeMark(field) = <<>> THEN 1 ELSE DecimalValue(BeforeMark(field))

\* a field N>&M, or a field N>& followed by the token M
IsDup(arguments) ==
    LET field == Head(arguments) IN
    /\ Contains(field, ">") /\ ~Contains(field, DQuote) /\ field[1] # "$"
    /\ BeforeMark(field) = <<>> \/ Numeric(BeforeMark(field))
    /\ AfterMark(field) # <<>> /\ AfterMark(field)[1] = "&"
    /\ \/ Numeric(Tail(AfterMark(field)))
       \/ AfterMark(field) = <<"&">> /\ Len(arguments) >= 2 /\ Numeric(arguments[2])

DupTarget(arguments) ==
    IF AfterMark(Head(arguments)) = <<"&">> THEN DecimalValue(arguments[2])
    ELSE DecimalValue(Tail(AfterMark(Head(arguments))))

DupTaken(arguments) == IF AfterMark(Head(arguments)) = <<"&">> THEN 2 ELSE 1

\* a process that was in parse_shell is still in the closure after the step
StaysInClosure(p) ==
    /\ procs'[p].st = "run" /\ procs'[p].frames # <<>>
    /\ Last(procs'[p].frames).fn = "closure"

\* C11: when parse_shell, outside double quotes, takes a field N>&M, or N>&
\* followed by the token M (N is 1 when the field starts with '>'), and dup2
\* does not fail, descriptor N then refers to what descriptor M referred to
\* before the step, every other descriptor (M too) is as it was, and neither
\* the field nor its operand is added to the argument list.
C11_DescriptorRedirection ==
    [][\A p \in DOMAIN procs :
          (/\ InClosure(p, {"parse_shell"})
           /\ Top(procs[p]).ps.arguments # <<>>
           /\ ~Top(procs[p]).ps.is_double
           /\ IsDup(Top(procs[p]).ps.arguments)
           /\ StaysInClosure(p))
          => LET before == Top(procs[p]).ps
                 after == Last(procs'[p].frames).ps
                 n == SourceOf(Head(before.arguments))
                 m == DupTarget(before.arguments)
             IN /\ n \in Fds /\ m \in Fds
                /\ procs'[p].fds[n] = procs[p].fds[m]
                /\ \A fd \in Fds \ {n} : procs'[p].fds[fd] = procs[p].fds[fd]
                /\ after.result = before.result
                /\ after.arguments = Drop(before.arguments, DupTaken(before.arguments))]_vars

\* ls 2>& 1 runs ls with argv [ls] and descriptor 2 on what descriptor 1 is
C11_Witness ==
    \E p \in DOMAIN procs :
        /\ procs[p].st = "image" /\ procs[p].image.line = LsWith(<<tDupTo, tOne>>)
        /\ procs[p].image.argv = <<tLs>>
        /\ procs[p].fds[2] = StdFds[1] /\ procs[p].fds[1] = StdFds[1]

\* the positions in Shell.path of the readable directories holding the name
Holders(name) ==
    {i \in 1..Len(ShellPath) :
        /\ DirReadable(ShellPath[i])
        /\ \E j \in 1..Len(DirEntries(ShellPath[i])) : DirEntries(ShellPath[i])[j] = name}

FirstHolder(name) == CHOOSE i \in Holders(name) : \A j \in Holders(name) : i <= j

\* C12: for a command name without '/', find_path gives dir/name for the
\* first directory of Shell.path, in list order, that can be read and holds an
\* entry with exactly that name, and None when there is no such directory:
\* a child that has resolved its command holds that path, and find_path finds
\* nothing for a name no readable directory holds.
C12_PathScan ==
    \A p \in DOMAIN procs :
        (At(p, "closure") /\ Top(procs[p]).kind = "command"
                          /\ ~Contains(Top(procs[p]).argument, "/")) =>
            LET name == Top(procs[p]).argument IN
            /\ Top(procs[p]).stage # "find_path" =>
                  /\ Holders(name) # {}
                  /\ Top(procs[p]).path = ShellPath[FirstHolder(name)] \o <<"/">> \o name
            /\ Top(procs[p]).stage = "find_path" =>
                  (find_path(name).found <=> Holders(name) # {})

\* cp, held by /u and by /b, was resolved to /u/cp; (ls, held by the unreadable
\* /n and by /b, is resolved to /b/ls in other states)
C12_Witness ==
    \E p \in DOMAIN procs :
        /\ InClosure(p, {"parse_shell", "execute"})
        /\ Top(procs[p]).argument = tCp
        /\ Top(procs[p]).path = <<"/", "u", "/", "c", "p">>

\* C13: Shell.is_login is true exactly when argv has one element and it
\* starts with '-', or argv has two elements and the second is -l; so it is
\* false for three or more elements and for [-rsh, hello.rsh].
C13_IsLogin ==
    \A p \in DOMAIN procs :
        LET argv == procs[p].argv IN
        procs[p].is_login <=>
            \/ Len(argv) = 1 /\ argv[1] # <<>> /\ argv[1][1] = "-"
            \/ Len(argv) = 2 /\ argv[2] = <<"-", "l">>

\* a shell started as [-rsh, hello.rsh] is not a login shell and has
\* interpreted ~/.cshrc only
C13_Witness ==
    \E p \in DOMAIN procs :
        /\ procs[p].argv = <<LoginArgv0, HelloRsh>> /\ ~procs[p].is_login
        /\ At(p, "on_start") /\ Top(procs[p]).todo = <<>>

\* the file on_start is interpreting, if any
StartupFile(pr) ==
    IF pr.frames # <<>> /\ pr.frames[1].fn = "on_start" /\ HasFrame(pr, "interpret")
    THEN pr.frames[CHOOSE i \in 1..Len(pr.frames) : pr.frames[i].fn = "interpret"].path
    ELSE <<>>

\* C14: on_start interprets a startup file only when check_file holds for
\* it, ~/.cshrc alone in non-login mode, and goes on to the later files
\* whatever happened with an earlier one: the shell does not leave on_start
\* while files remain to be considered.
C14_StartupOrder ==
    [][\A p \in DOMAIN procs :
          (procs[p].role = "shell" /\ p \in DOMAIN procs') =>
              /\ (StartupFile(procs[p]) = <<>> /\ StartupFile(procs'[p]) # <<>>) =>
                    /\ check_file(StartupFile(procs'[p])) = Ok("true")
                    /\ ~procs[p].is_login => StartupFile(procs'[p]) = HomeFile(RcCshrc)
              /\ (procs[p].frames # <<>> /\ procs[p].frames[1].fn = "on_start"
                                        /\ procs[p].frames[1].todo # <<>>) =>
                    procs'[p].frames # <<>>]_vars

\* the process is in parse, called by interact, for this line
InteractParses(pr) ==
    /\ pr.role = "shell" /\ pr.st = "run" /\ Len(pr.frames) >= 2
    /\ pr.frames[Len(pr.frames)].fn = "parse"
    /\ pr.frames[Len(pr.frames) - 1].fn = "interact"

\* the process waits for the child of a line that interact gave to parse
InteractWaits(pr) ==
    /\ pr.role = "shell" /\ pr.st = "run" /\ Len(pr.frames) >= 3
    /\ pr.frames[Len(pr.frames)].fn = "fork_process"
    /\ pr.frames[Len(pr.frames)].stage = "wait"
    /\ pr.frames[Len(pr.frames) - 1].fn = "parse"
    /\ pr.frames[Len(pr.frames) - 2].fn = "interact"

\* C15: when interact parses a line whose command token is exit, the step of
\* parse ends interact with Ok: the interact call is gone, no process was
\* forked, and a shell that ends there ends with code 0; and when the child
\* of any other line has been waited for, the same interact call is at its
\* prompt again.
C15_ExitStopsLoop ==
    [][\A p \in DOMAIN procs :
          /\ (InteractParses(procs[p]) /\ ParseLine(Top(procs[p]).line).found
                                       /\ ParseLine(Top(procs[p]).line).argument = tExit) =>
                /\ DOMAIN procs' = DOMAIN procs
                /\ ~HasFrame(procs'[p], "interact")
                /\ Len(procs'[p].frames) <= Len(procs[p].frames) - 2
                /\ procs'[p].st = "zombie" => procs'[p].code = 0
                /\ procs'[p].st = "run" => Top(procs'[p]).fn = "handle_arguments"
          /\ (InteractWaits(procs[p]) /\ p \in DOMAIN procs'
                                      /\ procs'[p].frames # procs[p].frames) =>
                /\ Len(procs'[p].frames) = Len(procs[p].frames) - 2
                /\ Top(procs'[p]) = [fn |-> "interact", stage |-> "prompt"]]_vars

\* a shell that read exit in the interact of handle_arguments is back in
\* handle_arguments, without a child
C15_Witness ==
    \E p \in DOMAIN procs :
        /\ procs[p].role = "shell" /\ At(p, "handle_arguments")
        /\ Top(procs[p]).args = <<>> /\ procs[p].argv = <<Argv0, <<"-">>>>
        /\ Children(p) = {} /\ ~stdin.eof

\* a field N>path with a number N, or a field N> followed by the token path
IsSourcedToFile(arguments) ==
    LET field == Head(arguments) IN
    /\ Contains(field, ">") /\ ~Contains(field, DQuote) /\ field[1] # "$"
    /\ Numeric(BeforeMark(field))
    /\ \/ AfterMark(field) # <<>> /\ AfterMark(field)[1] # "&"
       \/ AfterMark(field) = <<>> /\ Len(arguments) >= 2

SourcedPath(arguments) ==
    IF AfterMark(Head(arguments)) = <<>> THEN arguments[2] ELSE AfterMark(Head(arguments))

\* C16: when parse_shell, outside double quotes, takes a field N>path with a
\* number N, or N> followed by the token path, and the step does not fail,
\* descriptor N then refers to the file named path (the text after '>', or the
\* next token) opened write-only with create, and descriptor 1 is as it was
\* when N is not 1.
C16_ExplicitSource ==
    [][\A p \in DOMAIN procs :
          (/\ InClosure(p, {"parse_shell"})
           /\ Top(procs[p]).ps.arguments # <<>>
           /\ ~Top(procs[p]).ps.is_double
           /\ IsSourcedToFile(Top(procs[p]).ps.arguments)
           /\ StaysInClosure(p))
          => LET arguments == Top(procs[p]).ps.arguments
                 n == SourceOf(Head(arguments))
             IN /\ n \in Fds
                /\ procs'[p].fds[n] = OpenedFile(SourcedPath(arguments),
                                                 {"O_CREAT", "O_WRONLY"}, {"S_IRUSR"})
                /\ n # 1 => procs'[p].fds[1] = procs[p].fds[1]]_vars

StdRange == 0..2

\* the fields are words, redirections of descriptor 1 to a file, and
\* redirections between the descriptors 0, 1 and 2
RECURSIVE SimpleRedirections(_)
SimpleRedirections(fields) ==
    IF fields = <<>> THEN TRUE
    ELSE LET field == Head(fields) IN
         IF Contains(field, DQuote) THEN FALSE
         ELSE IF field[1] = "$" \/ ~Contains(field, ">") THEN SimpleRedirections(Tail(fields))
         ELSE IF IsToFile(fields) THEN SimpleRedirections(Drop(fields, ToFileTaken(fields)))
         ELSE IF IsDup(fields) /\ SourceOf(field) \in StdRange /\ DupTarget(fields) \in StdRange
              THEN SimpleRedirections(Drop(fields, DupTaken(fields)))
         ELSE FALSE

RECURSIVE InEncounterOrder(_, _)
\* what the descriptors 0, 1 and 2 refer to after the redirections of the
\* fields, each applied in its turn to the table the earlier ones left
InEncounterOrder(fields, table) ==
    IF fields = <<>> THEN table
    ELSE LET field == Head(fields) IN
         IF field[1] = "$" \/ ~Contains(field, ">") THEN InEncounterOrder(Tail(fields), table)
         ELSE IF IsToFile(fields)
              THEN InEncounterOrder(Drop(fields, ToFileTaken(fields)),
                       [table EXCEPT ![1] = OpenedFile(ToFilePath(fields), {"O_CREAT", "O_WRONLY"}, {"S_IRUSR"})])
         ELSE InEncounterOrder(Drop(fields, DupTaken(fields)),
                       [table EXCEPT ![SourceOf(field)] = table[DupTarget(fields)]])

\* C17: redirections are applied in encounter order to the live table, the
\* later one winning: the program runs with the descriptors 0, 1, 2 that
\* result from applying the redirections of its line one after the other,
\* each fd-to-fd redirection copying what its target referred to at its turn.
C17_EncounterOrder ==
    \A p \in DOMAIN procs :
        (procs[p].st = "image" /\ procs[p].image.kind = "command") =>
            LET tokens == split_whitespace(procs[p].image.line)
                fields == Drop(tokens, LeadingAssignments(tokens) + 1)
            IN SimpleRedirections(fields) =>
                  \A fd \in StdRange :
                      procs[p].fds[fd] = InEncounterOrder(fields, [n \in StdRange |-> StdFds[n]])[fd]

\* ls 2>&1 >o o ran with descriptor 2 on the first stdout and 1 on o
C17_Witness ==
    \E p \in DOMAIN procs :
        /\ procs[p].st = "image" /\ procs[p].image.line = LsWith(<<tDup, tToFile, tWord>>)
        /\ procs[p].fds[2] = StdFds[1]
        /\ procs[p].fds[1] = OpenedFile(tWord, {"O_CREAT", "O_WRONLY"}, {"S_IRUSR"})

\* a decimal number, with or without a sign
IsNumber(s) == Numeric(s) \/ (Len(s) >= 2 /\ s[1] \in {"+", "-"} /\ Numeric(Tail(s)))

\* a redirection whose source or target is not a number, or whose operand
\* is missing because the line ends
Malformed(arguments) ==
    LET field == Head(arguments)
        source == BeforeMark(field)
        target == AfterMark(field)
    IN /\ Contains(field, ">") /\ ~Contains(field, DQuote) /\ field[1] # "$"
       /\ \/ source # <<>> /\ ~IsNumber(source)
          \/ /\ source = <<>> \/ IsNumber(source)
             /\ \/ Len(target) >= 2 /\ target[1] = "&" /\ ~IsNumber(Tail(target))
                \/ target = <<"&">> /\ (Len(arguments) = 1 \/ ~IsNumber(arguments[2]))
                \/ target = <<>> /\ Len(arguments) = 1

\* C18: when parse_shell, outside double quotes, takes a malformed
\* redirection (a source that is not a number, a target of '>&' that is not
\* a number, or no operand after '>', 'N>', '>&' or 'N>&' at the end of the
\* line), it fails with NotFound and no descriptor changes: the step ends the
\* child with its table as it was.
C18_MalformedRedirection ==
    [][\A p \in DOMAIN procs :
          (/\ InClosure(p, {"parse_shell"})
           /\ Top(procs[p]).ps.arguments # <<>>
           /\ ~Top(procs[p]).ps.is_double
           /\ Malformed(Top(procs[p]).ps.arguments)
           /\ procs'[p] # procs[p])
          => /\ \A osOk \in BOOLEAN :
                    ParseShellIter(Top(procs[p]).ps, procs[p].fds, procs[p].variables, osOk).res
                        = Err("NotFound")
             /\ procs'[p].fds = procs[p].fds
             /\ procs'[p].st = "zombie"]_vars

RECURSIVE LogicalTokens(_, _, _)
\* the fields with each double-quoted run put together again: the text
\* between the quotes with its spaces, without the quotes; a run that is not
\* closed takes the rest of the line
LogicalTokens(fields, open, run) ==
    IF fields = <<>> THEN (IF open THEN <<run>> ELSE <<>>)
    ELSE LET field == Head(fields) IN
         IF open
         THEN IF Last(field) = DQuote
              THEN <<run \o Space \o Front(field)>> \o LogicalTokens(Tail(fields), FALSE, <<>>)
              ELSE LogicalTokens(Tail(fields), TRUE, run \o Space \o field)
         ELSE IF field[1] = DQuote
              THEN IF Len(field) >= 2 /\ Last(field) = DQuote
                   THEN <<Front(Tail(field))>> \o LogicalTokens(Tail(fields), FALSE, <<>>)
                   ELSE LogicalTokens(Tail(fields), TRUE, Tail(field))
              ELSE <<field>> \o LogicalTokens(Tail(fields), FALSE, <<>>)

\* C19: a double-quoted run that spans several fields comes out of
\* parse_shell as one argument holding the enclosed text with its spaces and
\* without the quotes (an unclosed run taking the rest of the line): for a
\* line without '>' and '$', the arguments of the program after argv[0] are
\* the logical tokens of its fields.
C19_QuotedArguments ==
    \A p \in DOMAIN procs :
        (procs[p].st = "image" /\ procs[p].image.kind = "command") =>
            LET tokens == split_whitespace(procs[p].image.line)
                fields == Drop(tokens, LeadingAssignments(tokens) + 1)
            IN (\A i \in 1..Len(fields) : ~Contains(fields[i], ">") /\ ~Contains(fields[i], "$")) =>
                  Tail(procs[p].image.argv) = LogicalTokens(fields, FALSE, <<>>)

\* the frame of interpret of a process that is in it and stays in it
InterpretOf(pr) == pr.frames[CHOOSE i \in 1..Len(pr.frames) : pr.frames[i].fn = "interpret"]

IsProgram(path) == FileLines(path) # <<>> /\ StartsWith(Head(FileLines(path)), <<"#", "!">>)

\* C20: interpret of a file that does not start with #! gives every line of
\* the file to parse, in file order, from the first line on: when it enters
\* its loop all the lines of the file are still to come, and each call of
\* parse takes the first of the lines to come; for a file that starts with #!
\* it forks a child for the file and calls parse for none of its lines.
C20_InterpretEveryLine ==
    [][\A p \in DOMAIN procs :
          (At(p, "interpret") /\ p \in DOMAIN procs' /\ procs'[p].st = "run"
                              /\ procs'[p] # procs[p] /\ HasFrame(procs'[p], "interpret")) =>
              LET now == Top(procs[p])
                  next == Top(procs'[p])
              IN /\ (now.stage = "open" /\ ~IsProgram(now.path)) =>
                       next.fn = "interpret" /\ next.stage = "loop" /\ next.lines = FileLines(now.path)
                 /\ (now.stage = "loop" /\ now.lines # <<>>) =>
                       /\ next = [fn |-> "parse", line |-> Head(now.lines)]
                       /\ InterpretOf(procs'[p]).lines = Tail(now.lines)
                 /\ (now.stage = "open" /\ IsProgram(now.path)) =>
                       next.fn = "fork_process" /\ next.closure.kind = "script"]_vars

\* the shell is inside a call of interact
InInteract(p) ==
    /\ p \in DOMAIN procs /\ procs[p].role = "shell" /\ procs[p].st = "run"
    /\ HasFrame(procs[p], "interact")

\* C21: interact ends when its input ends: once read_line(0) has met the end
\* of the input, the shell that is in interact leaves it after finitely many
\* steps (the empty line has no command token, parse fails with NotFound and
\* the failure leaves the loop), instead of writing the prompt for ever.
C21_InteractEndsAtEof ==
    (stdin.eof /\ \E p \in Pids : InInteract(p)) ~> (\A p \in Pids : ~InInteract(p))

\* the input of a shell at the terminal has ended, and the shell, which was
\* in interact, has ended with the error of parse
C21_Witness ==
    /\ stdin = [source |-> "typed", eof |-> TRUE]
    /\ procs[1].role = "shell" /\ procs[1].st = "zombie" /\ procs[1].code = 1

(***************************************************************************)
(* Claims about the tokenizers (checked under SpecSplit)                   *)
(***************************************************************************)
HasQuote(line) == Contains(line, DQuote) \/ Contains(line, "'")

\* words separated by single spaces: no leading, trailing or doubled space
SingleSpaced(line) ==
    /\ line # <<>> /\ line[1] # " " /\ Last(line) # " "
    /\ \A i \in 1..(Len(line) - 1) : ~(line[i] = " " /\ line[i + 1] = " ")

\* what the claim C6 says one tokenizer output is, for the line it was given
SplitAsClaimed(line, out) ==
    /\ line \in {TestLineDouble, TestLineSingle} => out = TestExpectedQuoted
    /\ line = TestLinePlain => out = TestExpectedPlain
    /\ (~HasQuote(line) /\ SingleSpaced(line)) =>
           /\ Concat(out, Space) = line
           /\ \A i \in 1..Len(out) : out[i] # <<>> /\ ~Contains(out[i], " ")

\* C6: split_arguments splits a line at unquoted spaces and returns a run
\* enclosed in a pair of double or single quotes as one token without the
\* quotes: both test lines give [echo, first argument, second argument], and
\* a line of space-separated words without quotes gives those words in order.
C6_SplitArguments ==
    /\ tk.main # NoOutput => SplitAsClaimed(tk.line, tk.main)
    /\ tk.shell # NoOutput => SplitAsClaimed(tk.line, tk.shell)

\* C7: for every list of tokens without quote and space, tokenizing the
\* tokens joined by single spaces gives the list back, whatever its length.
C7_RoundTrip ==
    tk.mode = "join" =>
        /\ tk.main # NoOutput => tk.main = tk.toks
        /\ tk.shell # NoOutput => tk.shell = tk.toks
        /\ tk.parse # NoOutput => tk.parse = tk.toks

====
